---- MODULE Spec2Model ----
(***************************************************************************)
(* Model of scripts/generate_keymap.py: the binding decoder                *)
(* (parse_binding), the layer extractor (parse_keymap), the layout         *)
(* renderer (format_corne_layer) and the README splice (update_readme,     *)
(* __main__).                                                              *)
(*                                                                         *)
(* A Python str is a sequence of one-code-point strings.  Code points      *)
(* outside ASCII are written by their number: "U2502" is the box-drawing   *)
(* vertical bar, "U25BD" the white down-pointing triangle, and so on; the  *)
(* grave accent is "U0060".                                                *)
(***************************************************************************)
EXTENDS Integers, Sequences, FiniteSets, TLC

VARIABLES
    running,         \* the entry point this run exercises
    argc,            \* len(sys.argv) of the run of __main__
    readme,          \* the destination file: [exists, text]
    keymap_content,  \* the markdown handed to update_readme
    hist,            \* the destination file before the first run and after each run
    stdout,          \* what the runs printed, one tag per print call
    writes,          \* number of write_text calls so far
    exit_status,     \* exit status of the last run of __main__ (-1: none yet)
    binding,         \* the token handed to parse_binding
    label,           \* [done, raised, value]: what parse_binding returned
    pieces,          \* the parts the keymap text was assembled from
    content,         \* the keymap text handed to parse_keymap
    layers,          \* [done, raised, value]: what parse_keymap returned
    bindings,        \* the binding list handed to format_corne_layer
    layer_name,      \* the layer name handed to format_corne_layer
    rendered         \* [done, raised, value]: what format_corne_layer returned

vars == <<running, argc, readme, keymap_content, hist, stdout, writes, exit_status,
          binding, label, pieces, content, layers, bindings, layer_name, rendered>>

readmeVars == <<argc, readme, keymap_content, hist, stdout, writes, exit_status>>
bindingVars == <<binding, label>>
keymapVars == <<pieces, content, layers>>
renderVars == <<bindings, layer_name, rendered>>

----------------------------------------------------------------------------
(* Bounds of the model *)

MaxPieces == 4       \* parts of a destination file
MaxRuns == 2         \* runs of __main__ on the same destination file
MaxAmp == 2          \* leading "&" of a binding token
MaxBindings == 44    \* bindings of a layer handed to format_corne_layer
MaxKeymapPieces == 2 \* parts of a keymap text

----------------------------------------------------------------------------
(* Python str operations *)

NL == <<"\n">>

\* str.isspace of one character (the whitespace str.strip, str.split and \s see)
Whitespace == {" ", "\n", "\t", "\r", "\f"}
IsSpace(c) == c \in Whitespace

Digits == {"0", "1", "2", "3", "4", "5", "6", "7", "8", "9"}
IsDigit(c) == c \in Digits

\* s.startswith(p)
StartsWith(s, p) == Len(s) >= Len(p) /\ SubSeq(s, 1, Len(p)) = p

\* s[i:] with a 1-based i
From(s, i) == SubSeq(s, i, Len(s))

\* s.find(sep, from): the least index >= from where sep occurs in s, 0 if none
Find(s, sep, from) ==
    LET hits == {i \in from..(Len(s) - Len(sep) + 1) : SubSeq(s, i, i + Len(sep) - 1) = sep}
    IN IF hits = {} THEN 0 ELSE CHOOSE i \in hits : \A j \in hits : i <= j

\* sep in s
Contains(s, sep) == Find(s, sep, 1) # 0

\* s.split(sep): the parts of s between the non-overlapping occurrences of sep,
\* found left to right
RECURSIVE Split(_, _)
Split(s, sep) ==
    LET i == Find(s, sep, 1)
    IN IF i = 0 THEN <<s>>
       ELSE <<SubSeq(s, 1, i - 1)>> \o Split(From(s, i + Len(sep)), sep)

\* "".join(parts)
RECURSIVE Concat(_)
Concat(parts) ==
    IF parts = <<>> THEN <<>> ELSE Head(parts) \o Concat(Tail(parts))

----------------------------------------------------------------------------
(* update_readme and __main__ *)

start_marker == <<"<","!","-","-"," ","K","E","Y","M","A","P","_","S","T","A","R","T"," ","-","-",">">>
end_marker == <<"<","!","-","-"," ","K","E","Y","M","A","P","_","E","N","D"," ","-","-",">">>

NoFile == [exists |-> FALSE, text |-> <<>>]
File(t) == [exists |-> TRUE, text |-> t]

\* readme.exists() and both markers in the text read
HasMarkers(f) ==
    f.exists /\ Contains(f.text, start_marker) /\ Contains(f.text, end_marker)

\* update_readme with the markers test loosened to the start marker alone:
\* the text after the end marker is then empty when that marker is missing
update_readme_start_only(f, kc) ==
    IF f.exists /\ Contains(f.text, start_marker)
    THEN LET before == Split(f.text, start_marker)[1]
             parts == Split(f.text, end_marker)
             after == IF Len(parts) >= 2 THEN parts[2] ELSE <<>>
             new_content == before \o start_marker \o NL \o kc \o NL \o end_marker \o after
         IN [file |-> File(new_content), wrote |-> TRUE, warned |-> FALSE]
    ELSE [file |-> f, wrote |-> FALSE, warned |-> TRUE]

\* update_readme(readme_path, keymap_content): the file afterwards, whether
\* write_text was called, and whether the warning was printed
update_readme(f, kc) ==
    IF HasMarkers(f)
    THEN LET before == Split(f.text, start_marker)[1]
             after == Split(f.text, end_marker)[2]
             new_content == before \o start_marker \o NL \o kc \o NL \o end_marker \o after
         IN [file |-> File(new_content), wrote |-> TRUE, warned |-> FALSE]
    ELSE [file |-> f, wrote |-> FALSE, warned |-> TRUE]

\* The texts a destination file is assembled from
ReadmePieces == {start_marker, end_marker, <<"a">>, <<"b", "\n">>}

ReadmeTexts ==
    {Concat(p) : p \in UNION {[1..n -> ReadmePieces] : n \in 0..MaxPieces}}

\* Generated markdown texts (the splice does not look into them)
Markdowns == {<<"#", "#", " ", "K", "\n", "x">>, <<>>}

IdleResult == [done |-> FALSE, raised |-> FALSE, value |-> <<>>]

InitReadme ==
    /\ running = "__main__"
    /\ argc \in {1, 2, 3}
    /\ readme \in {NoFile} \cup {File(t) : t \in ReadmeTexts}
    /\ keymap_content \in Markdowns
    /\ hist = <<readme>>
    /\ stdout = <<>>
    /\ writes = 0
    /\ exit_status = -1
    /\ binding = <<>> /\ label = IdleResult
    /\ pieces = <<>> /\ content = <<>> /\ layers = IdleResult
    /\ bindings = <<>> /\ layer_name = <<>> /\ rendered = IdleResult

\* __main__ without a keymap file argument: usage and exit status 1
MainUsage ==
    /\ running = "__main__"
    /\ argc < 2
    /\ Len(hist) <= MaxRuns
    /\ stdout' = Append(stdout, "Usage")
    /\ exit_status' = 1
    /\ hist' = Append(hist, readme)
    /\ UNCHANGED <<argc, readme, keymap_content, writes>>
    /\ UNCHANGED <<running, bindingVars, keymapVars, renderVars>>

\* __main__ with the keymap file only: the markdown is printed
MainPrint ==
    /\ running = "__main__"
    /\ argc = 2
    /\ Len(hist) <= MaxRuns
    /\ stdout' = Append(stdout, "Markdown")
    /\ exit_status' = 0
    /\ hist' = Append(hist, readme)
    /\ UNCHANGED <<argc, readme, keymap_content, writes>>
    /\ UNCHANGED <<running, bindingVars, keymapVars, renderVars>>

\* __main__ with a destination file: update_readme, then the confirmation line
MainUpdate ==
    /\ running = "__main__"
    /\ argc >= 3
    /\ Len(hist) <= MaxRuns
    /\ LET r == update_readme(readme, keymap_content)
       IN /\ readme' = r.file
          /\ writes' = IF r.wrote THEN writes + 1 ELSE writes
          /\ stdout' = stdout \o (IF r.warned THEN <<"Warning">> ELSE <<>>) \o <<"Updated">>
          /\ hist' = Append(hist, r.file)
    /\ exit_status' = 0
    /\ UNCHANGED <<argc, keymap_content>>
    /\ UNCHANGED <<running, bindingVars, keymapVars, renderVars>>

NextReadme == MainUsage \/ MainPrint \/ MainUpdate

SpecReadme == InitReadme /\ [][NextReadme]_vars

\* The runs of __main__ so far that called update_readme: run k took the
\* destination file from hist[k] to hist[k + 1]
SpliceRuns == IF argc >= 3 THEN 1..(Len(hist) - 1) ELSE {}

\* The indices where sep occurs in s
Occurrences(s, sep) ==
    {i \in 1..(Len(s) - Len(sep) + 1) : \A n \in 1..Len(sep) : s[i + n - 1] = sep[n]}

\* The file exists and its text holds both markers
BothMarkers(f) ==
    /\ f.exists
    /\ Occurrences(f.text, start_marker) # {}
    /\ Occurrences(f.text, end_marker) # {}

\* C1: for a destination file holding both markers, the file after the second
\* splice run with the same markdown equals the file after the first run.
C1_Idempotent ==
    (argc >= 3 /\ Len(hist) = 3 /\ BothMarkers(hist[1])) => hist[3] = hist[2]

\* C2: for a destination file holding both markers, the file after the splice
\* is the original text before a start marker, the start marker, a newline, the
\* markdown, a newline, the end marker, and the original text after an end
\* marker (whichever occurrences of the markers are taken as the pair).
C2_Frame ==
    \A k \in SpliceRuns :
        BothMarkers(hist[k]) =>
            \E i \in Occurrences(hist[k].text, start_marker) :
                \E j \in Occurrences(hist[k].text, end_marker) :
                    hist[k + 1].text =
                        SubSeq(hist[k].text, 1, i - 1) \o start_marker \o NL
                        \o keymap_content \o NL \o end_marker
                        \o From(hist[k].text, j + Len(end_marker))

\* C3: update_readme writes the destination file only when it exists and holds
\* both markers; otherwise nothing is created or written, the content is
\* unchanged, a warning is printed, and the run ends with exit status 0.
C3_WriteOnlyWithMarkers ==
    /\ writes = Cardinality({k \in SpliceRuns : BothMarkers(hist[k])})
    /\ \A k \in SpliceRuns : ~BothMarkers(hist[k]) => hist[k + 1] = hist[k]
    /\ Cardinality({n \in 1..Len(stdout) : stdout[n] = "Warning"})
         = Cardinality({k \in SpliceRuns : ~BothMarkers(hist[k])})
    /\ SpliceRuns # {} => exit_status = 0

\* C3 witness: a run on an existing file that holds the start marker but not
\* the end marker left the file alone and printed the warning
C3_Witness ==
    /\ argc >= 3 /\ Len(hist) = 2
    /\ hist[1].exists
    /\ Occurrences(hist[1].text, start_marker) # {}
    /\ Occurrences(hist[1].text, end_marker) = {}
    /\ readme = hist[1] /\ writes = 0
    /\ stdout = <<"Warning", "Updated">> /\ exit_status = 0

----------------------------------------------------------------------------
(* parse_binding *)

KEY_DISPLAY == <<
    <<<<"k","p"," ","A">>, <<"A">>>>,
    <<<<"k","p"," ","B">>, <<"B">>>>,
    <<<<"k","p"," ","C">>, <<"C">>>>,
    <<<<"k","p"," ","D">>, <<"D">>>>,
    <<<<"k","p"," ","E">>, <<"E">>>>,
    <<<<"k","p"," ","F">>, <<"F">>>>,
    <<<<"k","p"," ","G">>, <<"G">>>>,
    <<<<"k","p"," ","H">>, <<"H">>>>,
    <<<<"k","p"," ","I">>, <<"I">>>>,
    <<<<"k","p"," ","J">>, <<"J">>>>,
    <<<<"k","p"," ","K">>, <<"K">>>>,
    <<<<"k","p"," ","L">>, <<"L">>>>,
    <<<<"k","p"," ","M">>, <<"M">>>>,
    <<<<"k","p"," ","N">>, <<"N">>>>,
    <<<<"k","p"," ","O">>, <<"O">>>>,
    <<<<"k","p"," ","P">>, <<"P">>>>,
    <<<<"k","p"," ","Q">>, <<"Q">>>>,
    <<<<"k","p"," ","R">>, <<"R">>>>,
    <<<<"k","p"," ","S">>, <<"S">>>>,
    <<<<"k","p"," ","T">>, <<"T">>>>,
    <<<<"k","p"," ","U">>, <<"U">>>>,
    <<<<"k","p"," ","V">>, <<"V">>>>,
    <<<<"k","p"," ","W">>, <<"W">>>>,
    <<<<"k","p"," ","X">>, <<"X">>>>,
    <<<<"k","p"," ","Y">>, <<"Y">>>>,
    <<<<"k","p"," ","Z">>, <<"Z">>>>,
    <<<<"k","p"," ","N","0">>, <<"0">>>>,
    <<<<"k","p"," ","N","1">>, <<"1">>>>,
    <<<<"k","p"," ","N","2">>, <<"2">>>>,
    <<<<"k","p"," ","N","3">>, <<"3">>>>,
    <<<<"k","p"," ","N","4">>, <<"4">>>>,
    <<<<"k","p"," ","N","5">>, <<"5">>>>,
    <<<<"k","p"," ","N","6">>, <<"6">>>>,
    <<<<"k","p"," ","N","7">>, <<"7">>>>,
    <<<<"k","p"," ","N","8">>, <<"8">>>>,
    <<<<"k","p"," ","N","9">>, <<"9">>>>,
    <<<<"k","p"," ","T","A","B">>, <<"T","a","b">>>>,
    <<<<"k","p"," ","E","S","C","A","P","E">>, <<"E","s","c">>>>,
    <<<<"k","p"," ","E","S","C">>, <<"E","s","c">>>>,
    <<<<"k","p"," ","L","E","F","T","_","C","O","N","T","R","O","L">>, <<"C","t","r","l">>>>,
    <<<<"k","p"," ","L","C","T","R","L">>, <<"C","t","r","l">>>>,
    <<<<"k","p"," ","R","I","G","H","T","_","C","O","N","T","R","O","L">>, <<"C","t","r","l">>>>,
    <<<<"k","p"," ","L","E","F","T","_","S","H","I","F","T">>, <<"S","h","i","f","t">>>>,
    <<<<"k","p"," ","L","S","H","F","T">>, <<"S","h","i","f","t">>>>,
    <<<<"k","p"," ","R","I","G","H","T","_","S","H","I","F","T">>, <<"S","h","i","f","t">>>>,
    <<<<"k","p"," ","L","E","F","T","_","A","L","T">>, <<"A","l","t">>>>,
    <<<<"k","p"," ","L","A","L","T">>, <<"A","l","t">>>>,
    <<<<"k","p"," ","R","I","G","H","T","_","A","L","T">>, <<"A","l","t","G","r">>>>,
    <<<<"k","p"," ","L","G","U","I">>, <<"G","U","I">>>>,
    <<<<"k","p"," ","R","G","U","I">>, <<"G","U","I">>>>,
    <<<<"k","p"," ","S","P","A","C","E">>, <<"S","p","a","c","e">>>>,
    <<<<"k","p"," ","B","A","C","K","S","P","A","C","E">>, <<"B","k","s","p">>>>,
    <<<<"k","p"," ","R","E","T">>, <<"E","n","t","e","r">>>>,
    <<<<"k","p"," ","E","N","T","E","R">>, <<"E","n","t","e","r">>>>,
    <<<<"k","p"," ","S","E","M","I","C","O","L","O","N">>, <<";">>>>,
    <<<<"k","p"," ","S","E","M","I">>, <<";">>>>,
    <<<<"k","p"," ","S","Q","T">>, <<"'">>>>,
    <<<<"k","p"," ","A","P","O","S">>, <<"'">>>>,
    <<<<"k","p"," ","C","O","M","M","A">>, <<",">>>>,
    <<<<"k","p"," ","D","O","T">>, <<".">>>>,
    <<<<"k","p"," ","F","S","L","H">>, <<"/">>>>,
    <<<<"k","p"," ","S","L","A","S","H">>, <<"/">>>>,
    <<<<"k","p"," ","B","S","L","H">>, <<"\\">>>>,
    <<<<"k","p"," ","B","A","C","K","S","L","A","S","H">>, <<"\\">>>>,
    <<<<"k","p"," ","L","B","K","T">>, <<"[">>>>,
    <<<<"k","p"," ","R","B","K","T">>, <<"]">>>>,
    <<<<"k","p"," ","L","B","R","C">>, <<"{">>>>,
    <<<<"k","p"," ","R","B","R","C">>, <<"}">>>>,
    <<<<"k","p"," ","L","P","A","R">>, <<"(">>>>,
    <<<<"k","p"," ","R","P","A","R">>, <<")">>>>,
    <<<<"k","p"," ","M","I","N","U","S">>, <<"-">>>>,
    <<<<"k","p"," ","E","Q","U","A","L">>, <<"=">>>>,
    <<<<"k","p"," ","P","L","U","S">>, <<"+">>>>,
    <<<<"k","p"," ","U","N","D","E","R">>, <<"_">>>>,
    <<<<"k","p"," ","G","R","A","V","E">>, <<"U0060">>>>,
    <<<<"k","p"," ","T","I","L","D","E">>, <<"~">>>>,
    <<<<"k","p"," ","E","X","C","L">>, <<"!">>>>,
    <<<<"k","p"," ","A","T">>, <<"@">>>>,
    <<<<"k","p"," ","H","A","S","H">>, <<"#">>>>,
    <<<<"k","p"," ","D","L","L","R">>, <<"$">>>>,
    <<<<"k","p"," ","P","R","C","N","T">>, <<"%">>>>,
    <<<<"k","p"," ","C","A","R","E","T">>, <<"^">>>>,
    <<<<"k","p"," ","A","M","P","S">>, <<"&">>>>,
    <<<<"k","p"," ","A","S","T","R","K">>, <<"*">>>>,
    <<<<"k","p"," ","P","I","P","E">>, <<"|">>>>,
    <<<<"k","p"," ","L","E","F","T">>, <<"U2190">>>>,
    <<<<"k","p"," ","R","I","G","H","T">>, <<"U2192">>>>,
    <<<<"k","p"," ","U","P">>, <<"U2191">>>>,
    <<<<"k","p"," ","D","O","W","N">>, <<"U2193">>>>,
    <<<<"k","p"," ","H","O","M","E">>, <<"H","o","m","e">>>>,
    <<<<"k","p"," ","E","N","D">>, <<"E","n","d">>>>,
    <<<<"k","p"," ","P","G","_","U","P">>, <<"P","g","U","p">>>>,
    <<<<"k","p"," ","P","G","_","D","N">>, <<"P","g","D","n">>>>,
    <<<<"b","t"," ","B","T","_","C","L","R">>, <<"B","T"," ","C","l","r">>>>,
    <<<<"b","t"," ","B","T","_","S","E","L"," ","0">>, <<"B","T"," ","0">>>>,
    <<<<"b","t"," ","B","T","_","S","E","L"," ","1">>, <<"B","T"," ","1">>>>,
    <<<<"b","t"," ","B","T","_","S","E","L"," ","2">>, <<"B","T"," ","2">>>>,
    <<<<"b","t"," ","B","T","_","S","E","L"," ","3">>, <<"B","T"," ","3">>>>,
    <<<<"b","t"," ","B","T","_","S","E","L"," ","4">>, <<"B","T"," ","4">>>>,
    <<<<"s","y","s","_","r","e","s","e","t">>, <<"R","e","s","e","t">>>>,
    <<<<"b","o","o","t","l","o","a","d","e","r">>, <<"B","o","o","t">>>>,
    <<<<"t","r","a","n","s">>, <<"U25BD">>>>,
    <<<<"n","o","n","e">>, <<"U2715">>>>
>>

lower_letters == <<"a","b","c","d","e","f","g","h","i","j","k","l","m","n","o","p","q","r","s","t","u","v","w","x","y","z">>
upper_letters == <<"A","B","C","D","E","F","G","H","I","J","K","L","M","N","O","P","Q","R","S","T","U","V","W","X","Y","Z">>

\* c.upper() and c.lower() of one character
Upper(c) ==
    IF \E i \in 1..26 : lower_letters[i] = c
    THEN upper_letters[CHOOSE i \in 1..26 : lower_letters[i] = c] ELSE c
Lower(c) ==
    IF \E i \in 1..26 : upper_letters[i] = c
    THEN lower_letters[CHOOSE i \in 1..26 : upper_letters[i] = c] ELSE c

\* s.capitalize()
Capitalize(s) ==
    [i \in 1..Len(s) |-> IF i = 1 THEN Upper(s[i]) ELSE Lower(s[i])]

\* s.lstrip() and s.rstrip()
RECURSIVE LStrip(_)
LStrip(s) == IF s # <<>> /\ IsSpace(Head(s)) THEN LStrip(Tail(s)) ELSE s
RECURSIVE RStrip(_)
RStrip(s) ==
    IF s # <<>> /\ IsSpace(s[Len(s)]) THEN RStrip(SubSeq(s, 1, Len(s) - 1)) ELSE s

\* s.strip()
Strip(s) == RStrip(LStrip(s))

\* s.lstrip("&")
RECURSIVE LStripAmp(_)
LStripAmp(s) == IF s # <<>> /\ Head(s) = "&" THEN LStripAmp(Tail(s)) ELSE s

\* s.split(): the maximal runs of non-whitespace characters
RECURSIVE SplitWs(_)
SplitWs(s) ==
    LET t == LStrip(s)
        stops == {i \in 1..Len(t) : IsSpace(t[i])}
        e == IF stops = {} THEN Len(t) + 1 ELSE CHOOSE i \in stops : \A j \in stops : i <= j
    IN IF t = <<>> THEN <<>>
       ELSE <<SubSeq(t, 1, e - 1)>> \o SplitWs(From(t, e))

\* s[:n]
Take(s, n) == SubSeq(s, 1, IF Len(s) < n THEN Len(s) ELSE n)

InTable(b) == \E i \in 1..Len(KEY_DISPLAY) : KEY_DISPLAY[i][1] = b
TableLabel(b) == KEY_DISPLAY[CHOOSE i \in 1..Len(KEY_DISPLAY) : KEY_DISPLAY[i][1] = b][2]

Returned(v) == [raised |-> FALSE, value |-> v]
IndexError == [raised |-> TRUE, value |-> <<>>]

\* f"{prefix}{binding.split()[1]}"
LayerLabel(prefix, b) ==
    LET parts == SplitWs(b)
    IN IF Len(parts) < 2 THEN IndexError ELSE Returned(prefix \o parts[2])

\* binding.lstrip("&") without the strip() before it
Normalize_no_strip(raw) == LStripAmp(raw)

\* binding.strip().lstrip("&")
Normalize(raw) == LStripAmp(Strip(raw))

\* parse_binding with the "kp " fallback tried before the table lookup
parse_binding_kp_first(raw) ==
    LET b == Normalize(raw)
    IN IF StartsWith(b, <<"m","o"," ">>) THEN LayerLabel(<<"L">>, b)
       ELSE IF StartsWith(b, <<"t","o"," ">>) THEN LayerLabel(<<"T","O">>, b)
       ELSE IF StartsWith(b, <<"l","t"," ">>) THEN LayerLabel(<<"L","T">>, b)
       ELSE IF StartsWith(b, <<"k","p"," ">>) THEN Returned(Capitalize(From(b, 4)))
       ELSE IF InTable(b) THEN Returned(TableLabel(b))
       ELSE Returned(Take(b, 6))

\* parse_binding(binding): the label returned, or the IndexError raised
parse_binding(raw) ==
    LET b == Normalize(raw)
    IN IF StartsWith(b, <<"m","o"," ">>) THEN LayerLabel(<<"L">>, b)
       ELSE IF StartsWith(b, <<"t","o"," ">>) THEN LayerLabel(<<"T","O">>, b)
       ELSE IF StartsWith(b, <<"l","t"," ">>) THEN LayerLabel(<<"L","T">>, b)
       ELSE IF InTable(b) THEN Returned(TableLabel(b))
       ELSE IF StartsWith(b, <<"k","p"," ">>) THEN Returned(Capitalize(From(b, 4)))
       ELSE Returned(Take(b, 6))

\* The tokens handed to parse_binding: a body with up to MaxAmp leading "&"
\* and optional surrounding whitespace
BindingBodies == {
    <<>>,
    <<"m","o">>,
    <<"m","o"," ","3">>,
    <<"m","o"," "," ","3">>,
    <<"m","o"," ","1","2"," ","4">>,
    <<"m","o"," ","1","2","3","4","5","6","7">>,
    <<"m","o","\t","1">>,
    <<"t","o"," ","0">>,
    <<"t","o">>,
    <<"l","t"," ","2"," ","S","P","A","C","E">>,
    <<"l","t"," ","2">>,
    <<"l","t">>,
    <<"k","p"," ","A">>,
    <<"k","p"," ","E","S","C","A","P","E">>,
    <<"k","p"," ","N","7">>,
    <<"k","p"," ","F","O","O">>,
    <<"k","p"," ","C","_","V","O","L","_","U","P">>,
    <<"k","p">>,
    <<"k","p"," "," ","f","o","o">>,
    <<"k","p"," ","a">>,
    <<"c","u","s","t","o","m","a","c","t","i","o","n","1","2","3">>,
    <<"t","r","a","n","s">>,
    <<"n","o","n","e">>,
    <<"b","t"," ","B","T","_","S","E","L"," ","2">>,
    <<"s","y","s","_","r","e","s","e","t">>,
    <<"b","o","o","t","l","o","a","d","e","r">>,
    <<"K","p"," ","A">>,
    <<"m","o","&","1">>,
    <<"k","p"," ","L","E","F","T">>
}

Ampersands(n) == [i \in 1..n |-> "&"]

BindingTokens ==
    {pre \o Ampersands(n) \o mid \o body \o post :
        pre \in {<<>>, <<" ">>}, n \in 0..MaxAmp, mid \in {<<>>, <<" ">>},
        body \in BindingBodies, post \in {<<>>, <<" ">>, <<"\n">>}}

InitBinding ==
    /\ running = "parse_binding"
    /\ binding \in BindingTokens
    /\ label = [done |-> FALSE, raised |-> FALSE, value |-> <<>>]
    /\ argc = 0 /\ readme = NoFile /\ keymap_content = <<>> /\ hist = <<>>
    /\ stdout = <<>> /\ writes = 0 /\ exit_status = -1
    /\ pieces = <<>> /\ content = <<>> /\ layers = IdleResult
    /\ bindings = <<>> /\ layer_name = <<>> /\ rendered = IdleResult

\* One call of parse_binding
Decode ==
    /\ running = "parse_binding"
    /\ ~label.done
    /\ LET r == parse_binding(binding)
       IN label' = [done |-> TRUE, raised |-> r.raised, value |-> r.value]
    /\ UNCHANGED binding
    /\ UNCHANGED <<running, readmeVars, keymapVars, renderVars>>

NextBinding == Decode

SpecBinding == InitBinding /\ [][NextBinding]_vars

\* The first whitespace-delimited argument after the three-character prefix of b
FirstArg(b) ==
    LET i == CHOOSE m \in 4..Len(b) : ~IsSpace(b[m]) /\ \A n \in 4..(m - 1) : IsSpace(b[n])
        ends == {m \in i..Len(b) : m = Len(b) \/ IsSpace(b[m + 1])}
        j == CHOOSE m \in ends : \A n \in ends : m <= n
    IN SubSeq(b, i, j)

HasLayerPrefix(b) ==
    \E p \in {<<"m","o"," ">>, <<"t","o"," ">>, <<"l","t"," ">>} : StartsWith(b, p)

C6_NeverFails ==
    label.done =>
        LET b == LStripAmp(Strip(binding))
        IN /\ ~label.raised
           /\ (/\ ~HasLayerPrefix(b)
               /\ ~StartsWith(b, <<"k","p"," ">>)
               /\ \A i \in 1..Len(KEY_DISPLAY) : KEY_DISPLAY[i][1] # b)
              => /\ Len(label.value) = (IF Len(b) < 6 THEN Len(b) ELSE 6)
                 /\ \A i \in 1..Len(label.value) : label.value[i] = b[i]

\* C6 witness: "&mo " (a layer binding whose argument is only whitespace) was
\* decoded to "mo" without an error
C6_Witness ==
    /\ label.done /\ ~label.raised
    /\ binding = <<"&","m","o"," ">>
    /\ label.value = <<"m","o">>

----------------------------------------------------------------------------
(* parse_keymap *)

MIN_BINDINGS == 36

\* The least index >= i of s whose character is not in the set cs, Len(s) + 1
\* when there is none: where a greedy \s*, \d+ or [^{}]* begun at i stops
SkipIn(s, i, cs) ==
    LET stops == {j \in i..Len(s) : s[j] \notin cs}
    IN IF stops = {} THEN Len(s) + 1 ELSE CHOOSE j \in stops : \A k \in stops : j <= k

\* The least index >= i of s whose character is in the set cs, Len(s) + 1 when
\* there is none
SkipTo(s, i, cs) ==
    LET stops == {j \in i..Len(s) : s[j] \in cs}
    IN IF stops = {} THEN Len(s) + 1 ELSE CHOOSE j \in stops : \A k \in stops : j <= k

\* s[i:].startswith(p), with a 1-based i
MatchesAt(s, i, p) == i + Len(p) - 1 <= Len(s) /\ SubSeq(s, i, i + Len(p) - 1) = p

\* re.sub(r'//[^\n]*', '', s)
RECURSIVE StripLineComments(_)
StripLineComments(s) ==
    LET i == Find(s, <<"/","/">>, 1)
        nl == Find(s, NL, i + 2)
    IN IF i = 0 THEN s
       ELSE SubSeq(s, 1, i - 1)
            \o (IF nl = 0 THEN <<>> ELSE StripLineComments(From(s, nl)))

\* re.sub(r'/\*.*?\*/', '', s, flags=re.DOTALL)
RECURSIVE StripBlockComments(_)
StripBlockComments(s) ==
    LET i == Find(s, <<"/","*">>, 1)
        j == Find(s, <<"*","/">>, i + 2)
    IN IF i = 0 \/ j = 0 THEN s
       ELSE SubSeq(s, 1, i - 1) \o StripBlockComments(From(s, j + 2))

\* content_no_comments: line comments are removed first, then block comments
RemoveComments(s) == StripBlockComments(StripLineComments(s))

NoMatch == [ok |-> FALSE, name |-> <<>>, group |-> <<>>, end |-> 0]

\* The tail of layer_pattern from position p on: \s*=\s*<\s*([^>]+)\s*>
\* The group cannot hold ">", so it ends before the first ">" after "<"; the
\* greedy \s* before it gives back one character when nothing else is left
MatchBindings(s, p) ==
    LET eq == SkipIn(s, p, Whitespace)
        lt == SkipIn(s, eq + 1, Whitespace)
        gt == Find(s, <<">">>, lt + 1)
        first == SkipIn(s, lt + 1, Whitespace)
    IN IF /\ eq <= Len(s) /\ s[eq] = "="
          /\ lt <= Len(s) /\ s[lt] = "<"
          /\ gt > lt + 1
       THEN [ok |-> TRUE, name |-> <<>>,
             group |-> SubSeq(s, IF first < gt THEN first ELSE gt - 1, gt - 1),
             end |-> gt + 1]
       ELSE NoMatch

\* layer_pattern tried at position i:
\* (Layer_\d+|layer_\d+)\s*\{[^{}]*?bindings\s*=\s*<\s*([^>]+)\s*>
\* The lazy [^{}]*? stops at the first "bindings" before any brace from which
\* the tail matches
MatchLayer(s, i) ==
    LET digits == i + 6
        after == SkipIn(s, digits, Digits)
        open == SkipIn(s, after, Whitespace)
        brace == SkipTo(s, open + 1, {"{", "}"})
        starts == {j \in (open + 1)..(brace - 1) :
                      MatchesAt(s, j, <<"b","i","n","d","i","n","g","s">>)
                      /\ MatchBindings(s, j + 8).ok}
        j0 == CHOOSE j \in starts : \A k \in starts : j <= k
    IN IF /\ (MatchesAt(s, i, <<"L","a","y","e","r","_">>)
              \/ MatchesAt(s, i, <<"l","a","y","e","r","_">>))
          /\ after > digits
          /\ open <= Len(s) /\ s[open] = "{"
          /\ starts # {}
       THEN [MatchBindings(s, j0 + 8) EXCEPT !.name = SubSeq(s, i, after - 1)]
       ELSE NoMatch

\* The least position >= i where an identifier of layer_pattern can start
NextLayerStart(s, i) ==
    LET a == Find(s, <<"L","a","y","e","r","_">>, i)
        b == Find(s, <<"l","a","y","e","r","_">>, i)
    IN IF a = 0 THEN b ELSE IF b = 0 THEN a ELSE IF a < b THEN a ELSE b

\* re.findall(layer_pattern, s, re.DOTALL) from position i on: the
\* non-overlapping matches, left to right, as (layer_name, bindings_str) pairs
RECURSIVE FindAllLayers(_, _)
FindAllLayers(s, i) ==
    LET c == NextLayerStart(s, i)
        m == MatchLayer(s, c)
    IN IF c = 0 THEN <<>>
       ELSE IF m.ok THEN <<<<m.name, m.group>>>> \o FindAllLayers(s, m.end)
       ELSE FindAllLayers(s, c + 1)

\* s.replace('\n', ' ')
ReplaceNewlines(s) == [i \in 1..Len(s) |-> IF s[i] = "\n" THEN " " ELSE s[i]]

\* re.split(r'(?=&)', s) of a text that does not start with "&"
RECURSIVE SplitRest(_)
SplitRest(s) ==
    LET i == Find(s, <<"&">>, 2)
    IN IF i = 0 THEN <<s>> ELSE <<SubSeq(s, 1, i - 1)>> \o SplitRest(From(s, i))

\* re.split(r'(?=&)', s): s cut before every "&" (an empty first part when s
\* starts with "&"; Python 3.7 and later split at empty matches)
SplitBeforeAmp(s) ==
    IF s # <<>> /\ s[1] = "&" THEN <<<<>>>> \o SplitRest(s) ELSE SplitRest(s)

\* [b for b in raw_bindings if b.strip()]: the strip() of the kept items left out
RECURSIVE StripNonEmpty_keep_raw(_)
StripNonEmpty_keep_raw(raw) ==
    IF raw = <<>> THEN <<>>
    ELSE (IF Strip(Head(raw)) # <<>> THEN <<Head(raw)>> ELSE <<>>)
         \o StripNonEmpty_keep_raw(Tail(raw))

\* [b.strip() for b in raw_bindings if b.strip()]
RECURSIVE StripNonEmpty(_)
StripNonEmpty(raw) ==
    IF raw = <<>> THEN <<>>
    ELSE (IF Strip(Head(raw)) # <<>> THEN <<Strip(Head(raw))>> ELSE <<>>)
         \o StripNonEmpty(Tail(raw))

\* The bindings list of one match
Tokens(bindings_str) == StripNonEmpty(SplitBeforeAmp(ReplaceNewlines(bindings_str)))

\* A layer is kept when it has more than MIN_BINDINGS bindings
IsFullLayer_more_than(toks) == Len(toks) > MIN_BINDINGS

\* len(bindings) >= 36
IsFullLayer(toks) == Len(toks) >= MIN_BINDINGS

\* d[key] = value on a dict kept as the sequence of its (key, value) items in
\* insertion order: an existing key keeps its place
DictSet(d, key, value) ==
    IF \E i \in 1..Len(d) : d[i][1] = key
    THEN [i \in 1..Len(d) |-> IF d[i][1] = key THEN <<key, value>> ELSE d[i]]
    ELSE Append(d, <<key, value>>)

\* The loop over the matches, from match n on
RECURSIVE CollectLayers(_, _, _)
CollectLayers(matches, n, d) ==
    IF n > Len(matches) THEN d
    ELSE LET toks == Tokens(matches[n][2])
         IN CollectLayers(matches, n + 1,
                IF IsFullLayer(toks) THEN DictSet(d, matches[n][1], toks) ELSE d)

\* int(digits)
DigitValue(c) == CHOOSE v \in 0..9 : <<"0","1","2","3","4","5","6","7","8","9">>[v + 1] = c
RECURSIVE ParseInt(_)
ParseInt(ds) ==
    IF ds = <<>> THEN 0
    ELSE 10 * ParseInt(SubSeq(ds, 1, Len(ds) - 1)) + DigitValue(ds[Len(ds)])

\* int(re.search(r'\d+', x).group()): the number of the first run of digits
LayerNumber(name) ==
    LET i == SkipTo(name, 1, Digits)
    IN ParseInt(SubSeq(name, i, SkipIn(name, i, Digits) - 1))

\* sorted(items, key=number): a stable sort, the first least item first
RECURSIVE SortLayers(_)
SortLayers(d) ==
    IF d = <<>> THEN <<>>
    ELSE LET least == {i \in 1..Len(d) :
                          \A j \in 1..Len(d) : LayerNumber(d[i][1]) <= LayerNumber(d[j][1])}
             i == CHOOSE i \in least : \A j \in least : i <= j
         IN <<d[i]>> \o SortLayers(SubSeq(d, 1, i - 1) \o SubSeq(d, i + 1, Len(d)))

\* parse_keymap(content): the items of sorted_layers, in order
parse_keymap(text) ==
    SortLayers(CollectLayers(FindAllLayers(RemoveComments(text), 1), 1, <<>>))

\* The parts a keymap text is assembled from: layer blocks, and comments that
\* hold a commented-out layer block
LayerPiece(name, n, key, lead) ==
    [kind |-> "layer", name |-> name, n |-> n, key |-> key, lead |-> lead, slashes |-> FALSE]
CommentPiece(kind, name, key, slashes) ==
    [kind |-> kind, name |-> name, n |-> MIN_BINDINGS, key |-> key, lead |-> <<>>,
     slashes |-> slashes]

KeymapPieces == {
    LayerPiece(<<"l","a","y","e","r","_","1">>, MIN_BINDINGS, "a", <<>>),
    LayerPiece(<<"l","a","y","e","r","_","1">>, MIN_BINDINGS - 1, "b", <<>>),
    LayerPiece(<<"l","a","y","e","r","_","1">>, MIN_BINDINGS + 1, "c", <<>>),
    LayerPiece(<<"L","a","y","e","r","_","1">>, MIN_BINDINGS, "d", <<>>),
    LayerPiece(<<"l","a","y","e","r","_","1","0">>, MIN_BINDINGS, "e", <<>>),
    LayerPiece(<<"l","a","y","e","r","_","2">>, MIN_BINDINGS - 1, "f", <<"x", " ">>),
    CommentPiece("block_comment", <<"l","a","y","e","r","_","3">>, "g", FALSE),
    CommentPiece("block_comment", <<"l","a","y","e","r","_","3">>, "g", TRUE),
    CommentPiece("line_comment", <<"l","a","y","e","r","_","4">>, "h", FALSE)
}

\* name { bindings = < lead &k &k ... >; }; with a newline after every 12th binding
LayerBlock(p) ==
    p.name \o <<" ","{","\n"," ","b","i","n","d","i","n","g","s"," ","="," ","<","\n">> \o p.lead
    \o Concat([i \in 1..p.n |-> <<"&", p.key>> \o (IF i % 12 = 0 THEN NL ELSE <<" ">>)])
    \o <<">",";","\n","}",";","\n">>

PieceText(p) ==
    IF p.kind = "layer" THEN LayerBlock(p)
    ELSE IF p.kind = "block_comment"
         THEN <<"/","*"," ">> \o LayerBlock(p)
              \o (IF p.slashes THEN <<"/","/"," ","o","l","d"," ","l","a","y","o","u","t"," ","*","/","\n">> ELSE <<"*","/","\n">>)
    ELSE <<"/","/"," ">> \o ReplaceNewlines(LayerBlock(p)) \o NL

InitKeymap ==
    /\ running = "parse_keymap"
    /\ pieces = <<>>
    /\ content = <<>>
    /\ layers = IdleResult
    /\ argc = 0 /\ readme = NoFile /\ keymap_content = <<>> /\ hist = <<>>
    /\ stdout = <<>> /\ writes = 0 /\ exit_status = -1
    /\ binding = <<>> /\ label = IdleResult
    /\ bindings = <<>> /\ layer_name = <<>> /\ rendered = IdleResult

\* The keymap file grows by one part
WriteKeymap ==
    /\ running = "parse_keymap"
    /\ ~layers.done
    /\ Len(pieces) < MaxKeymapPieces
    /\ \E p \in KeymapPieces :
          /\ pieces' = Append(pieces, p)
          /\ content' = content \o PieceText(p)
    /\ UNCHANGED layers
    /\ UNCHANGED <<running, readmeVars, bindingVars, renderVars>>

\* One call of parse_keymap on the text
Parse ==
    /\ running = "parse_keymap"
    /\ ~layers.done
    /\ layers' = [done |-> TRUE, raised |-> FALSE, value |-> parse_keymap(content)]
    /\ UNCHANGED <<pieces, content>>
    /\ UNCHANGED <<running, readmeVars, bindingVars, renderVars>>

NextKeymap == WriteKeymap \/ Parse

SpecKeymap == InitKeymap /\ [][NextKeymap]_vars

\* The layer blocks that layer_pattern matches in the text, as
\* (identifier, captured binding text) pairs
MatchedBlocks == FindAllLayers(RemoveComments(content), 1)

\* s without its whitespace characters
NoSpace(s) == SelectSeq(s, LAMBDA c : c \notin Whitespace)

\* The number after the "layer_" / "Layer_" of an identifier
IdentifierNumber(name) == ParseInt(From(name, 7))

\* The binding token count of a captured binding text: its "&", and one more
\* when text other than whitespace precedes the first "&"
TokenCount(group) ==
    LET amps == {i \in 1..Len(group) : group[i] = "&"}
        first == IF amps = {} THEN Len(group) + 1
                 ELSE CHOOSE i \in amps : \A j \in amps : i <= j
    IN Cardinality(amps) + (IF NoSpace(SubSeq(group, 1, first - 1)) # <<>> THEN 1 ELSE 0)

\* C4: parse_keymap returns exactly the matched layer blocks with at least 36
\* binding tokens, one layer per such block, ordered ascending by the integer
\* in the identifier, also when blocks share an identifier or a number.
C4_ExactlyMatched ==
    layers.done =>
        LET ms == MatchedBlocks
            full == {i \in 1..Len(ms) : TokenCount(ms[i][2]) >= 36}
            r == layers.value
        IN /\ Len(r) = Cardinality(full)
           /\ \A i \in full :
                 \E k \in 1..Len(r) :
                    r[k][1] = ms[i][1] /\ NoSpace(Concat(r[k][2])) = NoSpace(ms[i][2])
           /\ \A k \in 1..(Len(r) - 1) :
                 IdentifierNumber(r[k][1]) <= IdentifierNumber(r[k + 1][1])

\* C4 as amended: parse_keymap returns one layer per distinct identifier among
\* the matched blocks with at least 36 binding tokens, with the tokens of the
\* last such block of that identifier; blocks with fewer tokens are omitted;
\* the layers are ordered ascending by the integer in the identifier.
C4_LastPerIdentifier ==
    layers.done =>
        LET ms == MatchedBlocks
            full == {i \in 1..Len(ms) : TokenCount(ms[i][2]) >= 36}
            r == layers.value
            Last(name) == CHOOSE i \in full :
                              ms[i][1] = name /\ \A j \in full : ms[j][1] = name => j <= i
        IN /\ {r[k][1] : k \in 1..Len(r)} = {ms[i][1] : i \in full}
           /\ Len(r) = Cardinality({ms[i][1] : i \in full})
           /\ \A k \in 1..Len(r) :
                 /\ Len(r[k][2]) = TokenCount(ms[Last(r[k][1])][2])
                 /\ NoSpace(Concat(r[k][2])) = NoSpace(ms[Last(r[k][1])][2])
           /\ \A k \in 1..(Len(r) - 1) :
                 IdentifierNumber(r[k][1]) <= IdentifierNumber(r[k + 1][1])

\* C4 witness: two blocks with the same identifier and at least 36 tokens each
\* were parsed, and the one layer returned holds the tokens of the later block
C4_Witness ==
    /\ layers.done
    /\ Len(pieces) = 2
    /\ pieces[1].kind = "layer" /\ pieces[2].kind = "layer"
    /\ pieces[1].name = pieces[2].name /\ pieces[1].key # pieces[2].key
    /\ pieces[1].n >= 36 /\ pieces[2].n >= 36
    /\ Len(layers.value) = 1
    /\ layers.value[1][2] = [i \in 1..pieces[2].n |-> <<"&", pieces[2].key>>]

\* The text without its block comment parts
PlainText ==
    Concat([i \in 1..Len(pieces) |->
               IF pieces[i].kind = "block_comment" THEN <<>> ELSE PieceText(pieces[i])])

\* C7: a /* ... */ comment placed before a real layer block, whatever it
\* contains, does not change the result: parse_keymap returns for the text
\* what it returns for the text with the comment removed.
C7_BlockCommentsInvisible ==
    (/\ layers.done
     /\ \E i \in 1..Len(pieces) : \E j \in (i + 1)..Len(pieces) :
           pieces[i].kind = "block_comment" /\ pieces[j].kind = "layer")
    => layers.value = parse_keymap(PlainText)

\* C10: every binding token extracted for a layer is non-empty, has no
\* surrounding whitespace and starts with "&".
C10_TokensStartWithAmp ==
    layers.done =>
        \A k \in 1..Len(layers.value) :
            \A m \in 1..Len(layers.value[k][2]) :
                LET t == layers.value[k][2][m]
                IN t # <<>> /\ ~IsSpace(t[1]) /\ ~IsSpace(t[Len(t)]) /\ t[1] = "&"

\* C10 as amended: every binding token extracted for a layer is non-empty and
\* has no surrounding whitespace; the captured text is cut before every "&",
\* so only the first token of a layer may lack the leading "&" and no token
\* holds a "&" after its first character; the text before the first "&" is
\* dropped only when it is blank, otherwise it is the first token and counts
\* toward the 36-token threshold.
C10_TokensCutBeforeAmp ==
    layers.done =>
        \A k \in 1..Len(layers.value) :
            LET toks == layers.value[k][2]
            IN /\ \A m \in 1..Len(toks) :
                     LET t == toks[m]
                     IN /\ t # <<>> /\ ~IsSpace(t[1]) /\ ~IsSpace(t[Len(t)])
                        /\ (m > 1 => t[1] = "&")
                        /\ \A n \in 2..Len(t) : t[n] # "&"
               /\ \E i \in 1..Len(MatchedBlocks) :
                     /\ MatchedBlocks[i][1] = layers.value[k][1]
                     /\ NoSpace(Concat(toks)) = NoSpace(MatchedBlocks[i][2])
               /\ Len(toks) >= 36

\* C10 witness: a layer was returned whose first token is the text before the
\* first "&", and that token is the 36th on which the layer was kept
C10_Witness ==
    /\ layers.done
    /\ \E k \in 1..Len(layers.value) :
          /\ layers.value[k][2][1] = <<"x">>
          /\ Len(layers.value[k][2]) = 36

----------------------------------------------------------------------------
(* format_corne_layer *)

Spaces(n) == [i \in 1..n |-> " "]

\* key.center(width): CPython pads left with marg / 2 + (marg & width & 1)
Center(s, width) ==
    IF Len(s) >= width THEN s
    ELSE LET marg == width - Len(s)
             left == (marg \div 2) + (IF marg % 2 = 1 /\ width % 2 = 1 THEN 1 ELSE 0)
         IN Spaces(left) \o s \o Spaces(marg - left)

\* fmt(key, width=7)
fmt(key) == Center(key, 7)

\* sep.join(parts)
RECURSIVE Join(_, _)
Join(sep, parts) ==
    IF parts = <<>> THEN <<>>
    ELSE IF Len(parts) = 1 THEN parts[1]
    ELSE parts[1] \o sep \o Join(sep, Tail(parts))

BAR == <<"U2502">>
FENCE == <<"U0060","U0060","U0060">>
DIVIDER_TOP == <<"U250C","U2500","U2500","U2500","U2500","U2500","U2500","U2500","U252C","U2500","U2500","U2500","U2500","U2500","U2500","U2500","U252C","U2500","U2500","U2500","U2500","U2500","U2500","U2500","U252C","U2500","U2500","U2500","U2500","U2500","U2500","U2500","U252C","U2500","U2500","U2500","U2500","U2500","U2500","U2500","U252C","U2500","U2500","U2500","U2500","U2500","U2500","U2500","U2510"," "," "," "," "," "," "," ","U250C","U2500","U2500","U2500","U2500","U2500","U2500","U2500","U252C","U2500","U2500","U2500","U2500","U2500","U2500","U2500","U252C","U2500","U2500","U2500","U2500","U2500","U2500","U2500","U252C","U2500","U2500","U2500","U2500","U2500","U2500","U2500","U252C","U2500","U2500","U2500","U2500","U2500","U2500","U2500","U252C","U2500","U2500","U2500","U2500","U2500","U2500","U2500","U2510">>
DIVIDER_ROW == <<"U251C","U2500","U2500","U2500","U2500","U2500","U2500","U2500","U253C","U2500","U2500","U2500","U2500","U2500","U2500","U2500","U253C","U2500","U2500","U2500","U2500","U2500","U2500","U2500","U253C","U2500","U2500","U2500","U2500","U2500","U2500","U2500","U253C","U2500","U2500","U2500","U2500","U2500","U2500","U2500","U253C","U2500","U2500","U2500","U2500","U2500","U2500","U2500","U2524"," "," "," "," "," "," "," ","U251C","U2500","U2500","U2500","U2500","U2500","U2500","U2500","U253C","U2500","U2500","U2500","U2500","U2500","U2500","U2500","U253C","U2500","U2500","U2500","U2500","U2500","U2500","U2500","U253C","U2500","U2500","U2500","U2500","U2500","U2500","U2500","U253C","U2500","U2500","U2500","U2500","U2500","U2500","U2500","U253C","U2500","U2500","U2500","U2500","U2500","U2500","U2500","U2524">>
DIVIDER_THUMB == <<"U2514","U2500","U2500","U2500","U2500","U2500","U2500","U2500","U2534","U2500","U2500","U2500","U2500","U2500","U2500","U2500","U2534","U2500","U2500","U2500","U2500","U2500","U2500","U2500","U253C","U2500","U2500","U2500","U2500","U2500","U2500","U2500","U253C","U2500","U2500","U2500","U2500","U2500","U2500","U2500","U253C","U2500","U2500","U2500","U2500","U2500","U2500","U2500","U2524"," "," "," "," "," "," "," ","U251C","U2500","U2500","U2500","U2500","U2500","U2500","U2500","U253C","U2500","U2500","U2500","U2500","U2500","U2500","U2500","U253C","U2500","U2500","U2500","U2500","U2500","U2500","U2500","U253C","U2500","U2500","U2500","U2500","U2500","U2500","U2500","U2534","U2500","U2500","U2500","U2500","U2500","U2500","U2500","U2534","U2500","U2500","U2500","U2500","U2500","U2500","U2500","U2518">>
DIVIDER_BOTTOM == <<" "," "," "," "," "," "," "," "," "," "," "," "," "," "," "," "," "," "," "," "," "," "," "," ","U2514","U2500","U2500","U2500","U2500","U2500","U2500","U2500","U2534","U2500","U2500","U2500","U2500","U2500","U2500","U2500","U2534","U2500","U2500","U2500","U2500","U2500","U2500","U2500","U2518"," "," "," "," "," "," "," ","U2514","U2500","U2500","U2500","U2500","U2500","U2500","U2500","U2534","U2500","U2500","U2500","U2500","U2500","U2500","U2500","U2534","U2500","U2500","U2500","U2500","U2500","U2500","U2500","U2518">>

\* keys = [parse_binding(b) for b in bindings], then the padding to 42 entries
\* (keys[i] of the code is Keys(bs)[i + 1])
Keys(bs) ==
    LET keys == [i \in 1..Len(bs) |-> parse_binding(bs[i]).value]
    IN IF Len(keys) < 42 THEN keys \o [i \in 1..(42 - Len(keys)) |-> <<>>] ELSE keys

\* The cells of one half row with keys[i - 1] in place of keys[i] (index -1 is
\* the last entry of the list)
Cells_off_by_one(keys, lo, hi) ==
    Join(BAR, [n \in 1..(hi - lo) |->
                  fmt(keys[IF lo + n - 1 = 0 THEN Len(keys) ELSE lo + n - 1])])

\* "|".join([fmt(keys[i]) for i in range(lo, hi)])
Cells(keys, lo, hi) ==
    Join(BAR, [n \in 1..(hi - lo) |-> fmt(keys[lo + n])])

\* f"|{left}|       |{right}|"
KeyRow(keys, lo) ==
    BAR \o Cells(keys, lo, lo + 6) \o BAR \o Spaces(7) \o BAR
    \o Cells(keys, lo + 6, lo + 12) \o BAR

\* format_corne_layer(bindings, layer_name): the text returned, or the
\* IndexError a parse_binding call raised
format_corne_layer(bs, name) ==
    IF \E i \in 1..Len(bs) : parse_binding(bs[i]).raised THEN IndexError
    ELSE LET keys == Keys(bs)
             lines == <<
                 <<"#","#","#"," ">> \o name,
                 FENCE,
                 DIVIDER_TOP,
                 KeyRow(keys, 0),
                 DIVIDER_ROW,
                 KeyRow(keys, 12),
                 DIVIDER_ROW,
                 KeyRow(keys, 24),
                 DIVIDER_THUMB,
                 Spaces(24) \o BAR \o Cells(keys, 36, 39) \o BAR \o Spaces(7) \o BAR
                     \o Cells(keys, 39, 42) \o BAR,
                 DIVIDER_BOTTOM,
                 FENCE >>
         IN Returned(Join(NL, lines))

\* The binding lists handed to format_corne_layer: n tokens of one style
MixedTokens == <<
    <<"&","t","r","a","n","s">>,
    <<"&","n","o","n","e">>,
    <<"&","m","o"," ","1">>,
    <<"&","k","p"," ","E","S","C","A","P","E">>,
    <<"&","b","t"," ","B","T","_","S","E","L"," ","2">>,
    <<"&","k","p"," ","F","O","O">>,
    <<"&","l","t"," ","2"," ","S","P","A","C","E">>,
    <<"&","c","u","s","t","o","m","a","c","t","i","o","n","1","2","3">>,
    <<"&","k","p"," ","L","E","F","T">>,
    <<"&","k","p"," ","N","7">>,
    <<"&","t","o"," ","0">>
>>

StyleToken(style, i) ==
    IF style = "mixed" THEN MixedTokens[(i % Len(MixedTokens)) + 1]
    ELSE IF style = "long" /\ i % 12 = 5 THEN <<"&","k","p"," ","C","_","V","O","L","_","U","P">>
    ELSE <<"&","k","p"," ">> \o <<upper_letters[(i % 26) + 1]>>

Styles == {"letters", "mixed", "long"}

BindingLists ==
    {[i \in 1..n |-> StyleToken(style, i - 1)] : n \in 0..MaxBindings, style \in Styles}

LayerNames == {<<"l","a","y","e","r","_","0">>}

InitRender ==
    /\ running = "format_corne_layer"
    /\ bindings \in BindingLists
    /\ layer_name \in LayerNames
    /\ rendered = IdleResult
    /\ argc = 0 /\ readme = NoFile /\ keymap_content = <<>> /\ hist = <<>>
    /\ stdout = <<>> /\ writes = 0 /\ exit_status = -1
    /\ binding = <<>> /\ label = IdleResult
    /\ pieces = <<>> /\ content = <<>> /\ layers = IdleResult

\* One call of format_corne_layer
Render ==
    /\ running = "format_corne_layer"
    /\ ~rendered.done
    /\ LET r == format_corne_layer(bindings, layer_name)
       IN rendered' = [done |-> TRUE, raised |-> r.raised, value |-> r.value]
    /\ UNCHANGED <<bindings, layer_name>>
    /\ UNCHANGED <<running, readmeVars, bindingVars, keymapVars>>

NextRender == Render

SpecRender == InitRender /\ [][NextRender]_vars

\* The line index (1-based) and the part index, after splitting the line at the
\* vertical bars, of key cell i (0..41)
CellLine(i) == IF i < 36 THEN 4 + 2 * (i \div 12) ELSE 10
CellPart(i) ==
    IF i < 36 THEN 2 + (i % 12) + (IF i % 12 >= 6 THEN 1 ELSE 0)
    ELSE 2 + (i - 36) + (IF i - 36 >= 3 THEN 1 ELSE 0)

\* The rendered text split into lines, and its four key rows split at the
\* vertical bars
RenderedLines == Split(rendered.value, NL)
RowParts(lines) == [n \in {4, 6, 8, 10} |-> Split(lines[n], BAR)]

\* C8: every key cell is exactly 7 characters wide, so each key row is as long
\* as the divider lines it sits between (the thumb row as the divider below
\* it), whatever the decoded labels are.
C8_FixedWidth ==
    rendered.done =>
        LET lines == RenderedLines
            parts == RowParts(lines)
        IN /\ Len(lines) = 12
           /\ \A i \in 0..41 : Len(parts[CellLine(i)][CellPart(i)]) = 7
           /\ \A n \in {4, 6, 8} :
                 /\ Len(lines[n]) = Len(lines[n - 1])
                 /\ Len(lines[n]) = Len(lines[n + 1])
           /\ Len(lines[10]) = Len(lines[11])

\* C9: for a binding list of any length the rendering succeeds and has exactly
\* 42 cells: rows 1-3 hold cells 0-5 | 6-11, 12-17 | 18-23, 24-29 | 30-35 and
\* the thumb row 36-38 | 39-41; cell i shows the decoded label of binding i
\* when that binding exists and is blank otherwise, so bindings from index 42
\* on are not shown.
C9_FortyTwoCells ==
    rendered.done =>
        LET lines == RenderedLines
            parts == RowParts(lines)
        IN /\ ~rendered.raised
           /\ Len(lines) = 12
           /\ \A n \in {4, 6, 8} :
                 /\ Len(parts[n]) = 15
                 /\ parts[n][1] = <<>> /\ parts[n][8] = Spaces(7) /\ parts[n][15] = <<>>
           /\ Len(parts[10]) = 9
           /\ parts[10][1] = Spaces(24) /\ parts[10][5] = Spaces(7) /\ parts[10][9] = <<>>
           /\ \A i \in 0..41 :
                 Strip(parts[CellLine(i)][CellPart(i)]) =
                     IF i < Len(bindings) THEN Strip(parse_binding(bindings[i + 1]).value)
                     ELSE <<>>

\* C9 witness: a 36-token layer was rendered with key 35 shown and the six
\* thumb cells blank
C9_Witness ==
    /\ rendered.done /\ ~rendered.raised
    /\ Len(bindings) = 36
    /\ LET parts == RowParts(RenderedLines)
       IN /\ Strip(parts[CellLine(35)][CellPart(35)]) # <<>>
          /\ \A i \in 36..41 : parts[CellLine(i)][CellPart(i)] = Spaces(7)

----------------------------------------------------------------------------
(* The whole model: a run exercises one entry point *)

Init == InitReadme \/ InitBinding \/ InitKeymap \/ InitRender

Next == NextReadme \/ NextBinding \/ NextKeymap \/ NextRender

Spec == Init /\ [][Next]_vars

====
